---------------------------- MODULE Spec2Model ----------------------------
(* Unix cron -> AWS EventBridge cron converter (cron-bridge-wizard).       *)
(* Strings are sequences of one-character strings; the string operations  *)
(* of the source (trim, split, replace with a regular expression,          *)
(* includes, parseInt, template literals) are operators over them.         *)
EXTENDS Integers, Sequences, FiniteSets, TLC

VARIABLES impl, cronExpression, pc, valid, converted,
          unixCron, eventBridgeCron, isValid, error, effectPending

vars == <<impl, cronExpression, pc, valid, converted,
          unixCron, eventBridgeCron, isValid, error, effectPending>>

callVars == <<impl, cronExpression, pc, valid, converted>>
uiVars == <<unixCron, eventBridgeCron, isValid, error, effectPending>>

-----------------------------------------------------------------------------
(* Characters                                                              *)

Digits == <<"0", "1", "2", "3", "4", "5", "6", "7", "8", "9">>

UpperLetters == <<"A", "B", "C", "D", "E", "F", "G", "H", "I", "J", "K", "L", "M",
                  "N", "O", "P", "Q", "R", "S", "T", "U", "V", "W", "X", "Y", "Z">>

LowerLetters == <<"a", "b", "c", "d", "e", "f", "g", "h", "i", "j", "k", "l", "m",
                  "n", "o", "p", "q", "r", "s", "t", "u", "v", "w", "x", "y", "z">>

Range(f) == {f[i] : i \in DOMAIN f}

IsDigit(c) == c \in Range(Digits)

DigitVal(c) == (CHOOSE i \in DOMAIN Digits : Digits[i] = c) - 1

IsLetter(c) == c \in Range(UpperLetters) \cup Range(LowerLetters)

\* \w of a JavaScript regular expression: [A-Za-z0-9_]
IsWordChar(c) == IsDigit(c) \/ IsLetter(c) \/ c = "_"

\* \s of a JavaScript regular expression, and what trim() removes
IsSpace(c) == c \in {" ", "\t", "\n", "\r"}

\* case folding of the i flag
ToUpper(c) ==
    IF c \in Range(LowerLetters)
    THEN UpperLetters[CHOOSE i \in DOMAIN LowerLetters : LowerLetters[i] = c]
    ELSE c

UpperStr(s) == [i \in DOMAIN s |-> ToUpper(s[i])]

-----------------------------------------------------------------------------
(* String helpers                                                          *)

\* s.includes(c) for a one-character c
Includes(s, c) == \E i \in DOMAIN s : s[i] = c

DropFirst(s, n) == SubSeq(s, n + 1, Len(s))

\* s.split(c) for a one-character separator c: always at least one piece
RECURSIVE SplitChar(_, _)
SplitChar(s, c) ==
    IF ~Includes(s, c) THEN <<s>>
    ELSE LET i == CHOOSE k \in DOMAIN s : s[k] = c /\ \A j \in 1..(k - 1) : s[j] # c
         IN  <<SubSeq(s, 1, i - 1)>> \o SplitChar(DropFirst(s, i), c)

\* s.trim()
RECURSIVE TrimLeft(_)
TrimLeft(s) == IF s # <<>> /\ IsSpace(Head(s)) THEN TrimLeft(Tail(s)) ELSE s

RECURSIVE TrimRight(_)
TrimRight(s) ==
    IF s # <<>> /\ IsSpace(s[Len(s)]) THEN TrimRight(SubSeq(s, 1, Len(s) - 1)) ELSE s

\* trim that leaves the whitespace at the end
TrimStartOnly(s) == TrimLeft(s)

Trim(s) == TrimRight(TrimLeft(s))

\* s.split(/\s+/): the pieces between maximal runs of whitespace
RECURSIVE SplitSpaces(_)
SplitSpaces(s) ==
    IF \A i \in DOMAIN s : ~IsSpace(s[i]) THEN <<s>>
    ELSE LET i == CHOOSE k \in DOMAIN s : IsSpace(s[k]) /\ \A j \in 1..(k - 1) : ~IsSpace(s[j])
         IN  <<SubSeq(s, 1, i - 1)>> \o SplitSpaces(TrimLeft(DropFirst(s, i)))

\* String(n) for an integer n
RECURSIVE NatToStr(_)
NatToStr(n) == IF n < 10 THEN <<Digits[n + 1]>> ELSE NatToStr(n \div 10) \o <<Digits[(n % 10) + 1]>>

NumToStr(n) == IF n < 0 THEN <<"-">> \o NatToStr(-n) ELSE NatToStr(n)


-----------------------------------------------------------------------------
(* parseInt                                                                *)

HexDigits == <<"0", "1", "2", "3", "4", "5", "6", "7", "8", "9",
               "A", "B", "C", "D", "E", "F">>

IsRadixDigit(c, radix) ==
    \E i \in 1..radix : HexDigits[i] = ToUpper(c)

RadixDigitVal(c) == (CHOOSE i \in DOMAIN HexDigits : HexDigits[i] = ToUpper(c)) - 1

\* the value of the longest prefix of s made of digits of the radix, given
\* the value acc of the digits already read; seen says whether one was read
RECURSIVE ParseDigits(_, _, _, _)
ParseDigits(s, radix, acc, seen) ==
    IF s # <<>> /\ IsRadixDigit(Head(s), radix)
    THEN ParseDigits(Tail(s), radix, acc * radix + RadixDigitVal(Head(s)), TRUE)
    ELSE [isNaN |-> ~seen, n |-> acc]

\* parseInt(s) with no radix argument: leading whitespace is skipped, one
\* sign is read, a 0x or 0X prefix selects radix 16, then the longest run of
\* digits is read; NaN when that run is empty
parseInt(s) ==
    LET t      == TrimLeft(s)
        neg    == t # <<>> /\ Head(t) = "-"
        u      == IF t # <<>> /\ Head(t) \in {"-", "+"} THEN Tail(t) ELSE t
        hex    == Len(u) >= 2 /\ u[1] = "0" /\ u[2] \in {"x", "X"}
        r      == IF hex THEN ParseDigits(DropFirst(u, 2), 16, 0, FALSE)
                         ELSE ParseDigits(u, 10, 0, FALSE)
    IN  [isNaN |-> r.isNaN, n |-> IF neg THEN 0 - r.n ELSE r.n]

-----------------------------------------------------------------------------
(* Implementation A: validation                                            *)

DayNames == << <<"S","U","N">>, <<"M","O","N">>, <<"T","U","E">>, <<"W","E","D">>,
               <<"T","H","U">>, <<"F","R","I">>, <<"S","A","T">> >>

MonthNames == << <<"J","A","N">>, <<"F","E","B">>, <<"M","A","R">>, <<"A","P","R">>,
                 <<"M","A","Y">>, <<"J","U","N">>, <<"J","U","L">>, <<"A","U","G">>,
                 <<"S","E","P">>, <<"O","C","T">>, <<"N","O","V">>, <<"D","E","C">> >>

\* MatchesNamed without the i flag: upper-case names only
MatchesNamedUpperOnly(field, names) ==
    /\ Len(field) >= 3
    /\ SubSeq(field, 1, 3) \in Range(names)
    /\ \A i \in 4..Len(field) :
          field[i] \in Range(UpperLetters) \/ IsDigit(field[i]) \/ field[i] \in {",", "-", "/"}

\* /^(NAME|...)(-|,|\/)*[A-Z0-9,\-\/]*$/i : a name, then only letters,
\* digits, commas, hyphens and slashes up to the end of the field
MatchesNamed(field, names) ==
    /\ Len(field) >= 3
    /\ UpperStr(SubSeq(field, 1, 3)) \in Range(names)
    /\ \A i \in 4..Len(field) :
          IsLetter(field[i]) \/ IsDigit(field[i]) \/ field[i] \in {",", "-", "/"}

\* IsValidRange without the test start <= end
IsValidRangeUnordered(range, min, max) ==
    LET pieces == SplitChar(range, "-")
        start  == parseInt(pieces[1])
        end    == parseInt(pieces[2])
    IN  ~start.isNaN /\ ~end.isNaN /\ start.n >= min /\ end.n <= max

\* const [start, end] = range.split("-").map(n => parseInt(n));
\* return !isNaN(start) && !isNaN(end) && start >= min && end <= max && start <= end;
IsValidRange(range, min, max) ==
    LET pieces == SplitChar(range, "-")
        start  == parseInt(pieces[1])
        end    == parseInt(pieces[2])
    IN  ~start.isNaN /\ ~end.isNaN /\ start.n >= min /\ end.n <= max /\ start.n <= end.n

\* IsValidNumber with the upper limit excluded
IsValidNumberBelowMax(s, min, max) ==
    LET num == parseInt(s)
    IN  ~num.isNaN /\ num.n >= min /\ num.n < max

\* const num = parseInt(...); return !isNaN(num) && num >= min && num <= max;
IsValidNumber(s, min, max) ==
    LET num == parseInt(s)
    IN  ~num.isNaN /\ num.n >= min /\ num.n <= max

\* isValidCronField that lets the step 0 pass (stepNum < 0 for stepNum <= 0)
isValidCronFieldStepZero(field, min, max, fieldType) ==
    IF field = <<"*">> THEN TRUE
    ELSE IF fieldType = "dayOfMonth" /\ (field = <<"L">> \/ Includes(field, "W")) THEN FALSE
    ELSE IF fieldType = "dayOfWeek" /\ (Includes(field, "#") \/ Includes(field, "L")) THEN FALSE
    ELSE IF fieldType = "dayOfWeek" /\ MatchesNamed(field, DayNames) THEN TRUE
    ELSE IF fieldType = "month" /\ MatchesNamed(field, MonthNames) THEN TRUE
    ELSE IF Includes(field, "/") THEN
        LET pieces  == SplitChar(field, "/")
            range   == pieces[1]
            step    == pieces[2]
            stepNum == parseInt(step)
        IN  IF stepNum.isNaN \/ stepNum.n < 0 THEN FALSE
            ELSE IF range = <<"*">> THEN TRUE
            ELSE IF Includes(range, "-") THEN IsValidRange(range, min, max)
            ELSE IsValidNumber(range, min, max)
    ELSE IF Includes(field, "-") THEN IsValidRange(field, min, max)
    ELSE IF Includes(field, ",") THEN
        LET values == SplitChar(field, ",")
        IN  \A i \in DOMAIN values : IsValidNumber(Trim(values[i]), min, max)
    ELSE IsValidNumber(field, min, max)

isValidCronField(field, min, max, fieldType) ==
    IF field = <<"*">> THEN TRUE
    ELSE IF fieldType = "dayOfMonth" /\ (field = <<"L">> \/ Includes(field, "W")) THEN FALSE
    ELSE IF fieldType = "dayOfWeek" /\ (Includes(field, "#") \/ Includes(field, "L")) THEN FALSE
    ELSE IF fieldType = "dayOfWeek" /\ MatchesNamed(field, DayNames) THEN TRUE
    ELSE IF fieldType = "month" /\ MatchesNamed(field, MonthNames) THEN TRUE
    ELSE IF Includes(field, "/") THEN
        LET pieces  == SplitChar(field, "/")
            range   == pieces[1]
            step    == pieces[2]
            stepNum == parseInt(step)
        IN  IF stepNum.isNaN \/ stepNum.n <= 0 THEN FALSE
            ELSE IF range = <<"*">> THEN TRUE
            ELSE IF Includes(range, "-") THEN IsValidRange(range, min, max)
            ELSE IsValidNumber(range, min, max)
    ELSE IF Includes(field, "-") THEN IsValidRange(field, min, max)
    ELSE IF Includes(field, ",") THEN
        LET values == SplitChar(field, ",")
        IN  \A i \in DOMAIN values : IsValidNumber(Trim(values[i]), min, max)
    ELSE IsValidNumber(field, min, max)

validateCronExpression(s) ==
    LET parts == SplitSpaces(Trim(s))
    IN  IF Len(parts) # 5 THEN FALSE
        ELSE /\ isValidCronField(parts[1], 0, 59, "minute")
             /\ isValidCronField(parts[2], 0, 23, "hour")
             /\ isValidCronField(parts[3], 1, 31, "dayOfMonth")
             /\ isValidCronField(parts[4], 1, 12, "month")
             /\ isValidCronField(parts[5], 0, 7, "dayOfWeek")

-----------------------------------------------------------------------------
(* Implementation A: conversion                                            *)

\* s.replace(/NAME/gi, rep): every occurrence, left to right, any letter case
RECURSIVE ReplaceAllCI(_, _, _)
ReplaceAllCI(s, name, rep) ==
    IF Len(s) < Len(name) THEN s
    ELSE IF UpperStr(SubSeq(s, 1, Len(name))) = name
         THEN rep \o ReplaceAllCI(DropFirst(s, Len(name)), name, rep)
         ELSE <<Head(s)>> \o ReplaceAllCI(Tail(s), name, rep)

\* the chain of seven replace calls: SUN -> 1, MON -> 2, ..., SAT -> 7
RECURSIVE ReplaceNames(_, _)
ReplaceNames(s, k) ==
    IF k > Len(DayNames) THEN s
    ELSE ReplaceNames(ReplaceAllCI(s, DayNames[k], NumToStr(k)), k + 1)

ReplaceNamedDays(s) == ReplaceNames(s, 1)

\* const newStart = startNum === 0 ? 1 : startNum + 1;
ShiftEndpoint(n) == IF n = 0 THEN 1 ELSE n + 1

\* s.replace(/(\d)-(\d)/g, ...): each digit-hyphen-digit match, left to
\* right, the search resuming after the match
RECURSIVE ReplaceRanges(_)
ReplaceRanges(s) ==
    IF Len(s) < 3 THEN s
    ELSE IF IsDigit(s[1]) /\ s[2] = "-" /\ IsDigit(s[3])
         THEN NumToStr(ShiftEndpoint(DigitVal(s[1]))) \o <<"-">>
                 \o NumToStr(ShiftEndpoint(DigitVal(s[3])))
                 \o ReplaceRanges(DropFirst(s, 3))
         ELSE <<Head(s)>> \o ReplaceRanges(Tail(s))

\* ShiftDigit with the upper limit of the shifted digits off by one
ShiftDigitUpTo5(c) ==
    LET numVal == DigitVal(c)
    IN  IF numVal = 0 THEN "1"
        ELSE IF numVal >= 1 /\ numVal <= 5 THEN Digits[numVal + 2]
        ELSE c

\* the callback of the \b(\d)\b replace
ShiftDigit(c) ==
    LET numVal == DigitVal(c)
    IN  IF numVal = 0 THEN "1"
        ELSE IF numVal >= 1 /\ numVal <= 6 THEN Digits[numVal + 2]
        ELSE c

\* \b(\d)\b at position i: a digit with no word character on either side
IsLoneDigit(s, i) ==
    /\ IsDigit(s[i])
    /\ (i = 1 \/ ~IsWordChar(s[i - 1]))
    /\ (i = Len(s) \/ ~IsWordChar(s[i + 1]))

\* ReplaceLoneDigits without the g flag: only the first match is replaced
ReplaceFirstLoneDigit(s) ==
    [i \in DOMAIN s |->
        IF IsLoneDigit(s, i) /\ \A j \in 1..(i - 1) : ~IsLoneDigit(s, j)
        THEN IF DigitVal(s[i]) = 0 THEN "1"
             ELSE IF DigitVal(s[i]) <= 6 THEN Digits[DigitVal(s[i]) + 2] ELSE s[i]
        ELSE s[i]]

\* s.replace(/\b(\d)\b/g, ...)
ReplaceLoneDigits(s) ==
    [i \in DOMAIN s |-> IF IsLoneDigit(s, i) THEN ShiftDigit(s[i]) ELSE s[i]]

\* baseNum === 0 ? 1 : (baseNum >= 1 && baseNum <= 6 ? baseNum + 1 : baseNum)
ConvertBase(baseNum) ==
    IF baseNum = 0 THEN 1
    ELSE IF baseNum >= 1 /\ baseNum <= 6 THEN baseNum + 1
    ELSE baseNum

\* if (dayOfWeek.includes("/")) { const [range, step] = dayOfWeek.split("/"); ... }
ConvertStep(dayOfWeek) ==
    IF ~Includes(dayOfWeek, "/") THEN dayOfWeek
    ELSE LET pieces == SplitChar(dayOfWeek, "/")
             range  == pieces[1]
             step   == pieces[2]
         IN  IF range = <<"*">> THEN <<"*", "/">> \o step
             ELSE IF Includes(range, "-") THEN dayOfWeek
             ELSE IF ~parseInt(range).isNaN
                  THEN NumToStr(ConvertBase(parseInt(range).n)) \o <<"/">> \o step
             ELSE dayOfWeek

\* if (dayOfWeek !== "*") { ... }
ConvertDayOfWeek(dayOfWeek) ==
    IF dayOfWeek = <<"*">> THEN dayOfWeek
    ELSE ConvertStep(ReplaceLoneDigits(ReplaceRanges(ReplaceNamedDays(dayOfWeek))))

\* ResolveDayOfMonth that never writes ?
ResolveDayOfMonthKept(dayOfMonth, dayOfWeek) == dayOfMonth

\* ResolveDayOfWeek without its first branch: both fields stay specific
ResolveDayOfWeekBothKept(dayOfMonth, dayOfWeek) ==
    IF dayOfMonth = <<"*">> /\ dayOfWeek = <<"*">> THEN <<"?">> ELSE dayOfWeek

\* mutual exclusivity of day-of-month and day-of-week; dayOfWeek is the
\* field after ConvertDayOfWeek
ResolveDayOfMonth(dayOfMonth, dayOfWeek) ==
    IF dayOfMonth # <<"*">> /\ dayOfWeek # <<"*">> THEN dayOfMonth
    ELSE IF dayOfMonth = <<"*">> /\ dayOfWeek = <<"*">> THEN dayOfMonth
    ELSE IF dayOfMonth = <<"*">> /\ dayOfWeek # <<"*">> THEN <<"?">>
    ELSE dayOfMonth

ResolveDayOfWeek(dayOfMonth, dayOfWeek) ==
    IF dayOfMonth # <<"*">> /\ dayOfWeek # <<"*">> THEN <<"?">>
    ELSE IF dayOfMonth = <<"*">> /\ dayOfWeek = <<"*">> THEN <<"?">>
    ELSE IF dayOfMonth = <<"*">> /\ dayOfWeek # <<"*">> THEN dayOfWeek
    ELSE dayOfWeek

\* FormatExpression without the year field
FormatExpressionNoYear(minute, hour, dayOfMonth, month, dayOfWeek) ==
    minute \o <<" ">> \o hour \o <<" ">> \o dayOfMonth \o <<" ">> \o month
           \o <<" ">> \o dayOfWeek

\* FormatExpression with the day-of-week replacements applied to the month too
FormatExpressionMonthReplaced(minute, hour, dayOfMonth, month, dayOfWeek) ==
    minute \o <<" ">> \o hour \o <<" ">> \o dayOfMonth \o <<" ">>
           \o ReplaceLoneDigits(month) \o <<" ">> \o dayOfWeek \o <<" ", "*">>

\* `${minute} ${hour} ${dayOfMonth} ${month} ${dayOfWeek} *`
FormatExpression(minute, hour, dayOfMonth, month, dayOfWeek) ==
    minute \o <<" ">> \o hour \o <<" ">> \o dayOfMonth \o <<" ">> \o month
           \o <<" ">> \o dayOfWeek \o <<" ", "*">>

FieldCountMessage ==
    "Unix cron must have exactly 5 fields: minute hour day-of-month month day-of-week"

Returned(value) == [threw |-> FALSE, value |-> value, message |-> ""]
Thrown(message) == [threw |-> TRUE, value |-> <<>>, message |-> message]

convertCronToEventBridge(s) ==
    LET parts == SplitSpaces(Trim(s))
    IN  IF Len(parts) # 5 THEN Thrown(FieldCountMessage)
        ELSE LET dayOfWeek == ConvertDayOfWeek(parts[5])
             IN  Returned(FormatExpression(parts[1], parts[2],
                                           ResolveDayOfMonth(parts[3], dayOfWeek),
                                           parts[4],
                                           ResolveDayOfWeek(parts[3], dayOfWeek)))

-----------------------------------------------------------------------------
(* Implementation B (the second Index component of part_000)               *)

\* s.includes(sub) for a string sub
IncludesStr(s, sub) ==
    \E i \in 1..(Len(s) - Len(sub) + 1) : SubSeq(s, i, i + Len(sub) - 1) = sub

\* /^(SUN|...|SAT)(-|,)*(SUN|...|SAT)*$/ after the first name: hyphens and
\* commas, then names, up to the end of the field
RECURSIVE OnlyDayNames(_)
OnlyDayNames(s) ==
    \/ s = <<>>
    \/ /\ Len(s) >= 3
       /\ SubSeq(s, 1, 3) \in Range(DayNames)
       /\ OnlyDayNames(DropFirst(s, 3))

RECURSIVE SkipSeparators(_)
SkipSeparators(s) ==
    IF s # <<>> /\ Head(s) \in {"-", ","} THEN SkipSeparators(Tail(s)) ELSE s

MatchesNamedDaysB(field) ==
    /\ Len(field) >= 3
    /\ SubSeq(field, 1, 3) \in Range(DayNames)
    /\ OnlyDayNames(SkipSeparators(DropFirst(field, 3)))

\* isValidCronField(field, min, max) of implementation B; its range and
\* number tests are the expressions of IsValidRange and IsValidNumber
isValidCronFieldB(field, min, max) ==
    IF field = <<"*">> THEN TRUE
    ELSE IF MatchesNamedDaysB(field) THEN TRUE
    ELSE IF Includes(field, "/") THEN
        LET pieces == SplitChar(field, "/")
            range  == pieces[1]
            step   == pieces[2]
        IN  IF range = <<"*">> THEN ~parseInt(step).isNaN /\ parseInt(step).n > 0
            ELSE IF Includes(range, "-") THEN IsValidRange(range, min, max)
            ELSE IsValidNumber(range, min, max)
    ELSE IF Includes(field, "-") THEN IsValidRange(field, min, max)
    ELSE IF Includes(field, ",") THEN
        LET values == SplitChar(field, ",")
        IN  \A i \in DOMAIN values : IsValidNumber(Trim(values[i]), min, max)
    ELSE IsValidNumber(field, min, max)

validateCronExpressionB(s) ==
    LET parts == SplitSpaces(Trim(s))
    IN  IF Len(parts) # 5 THEN FALSE
        ELSE /\ isValidCronFieldB(parts[1], 0, 59)
             /\ isValidCronFieldB(parts[2], 0, 23)
             /\ isValidCronFieldB(parts[3], 1, 31)
             /\ isValidCronFieldB(parts[4], 1, 12)
             /\ isValidCronFieldB(parts[5], 0, 7)

\* s.replace(/NAME/g, rep): every occurrence, left to right, this letter case only
RECURSIVE ReplaceAll(_, _, _)
ReplaceAll(s, name, rep) ==
    IF Len(s) < Len(name) THEN s
    ELSE IF SubSeq(s, 1, Len(name)) = name
         THEN rep \o ReplaceAll(DropFirst(s, Len(name)), name, rep)
         ELSE <<Head(s)>> \o ReplaceAll(Tail(s), name, rep)

\* the chain of seven replace calls of implementation B
RECURSIVE ReplaceNamesB(_, _)
ReplaceNamesB(s, k) ==
    IF k > Len(DayNames) THEN s
    ELSE ReplaceNamesB(ReplaceAll(s, DayNames[k], NumToStr(k)), k + 1)

\* s.replace(/\b0\b/g, c)
ReplaceLoneZero(s, c) ==
    [i \in DOMAIN s |-> IF IsLoneDigit(s, i) /\ s[i] = "0" THEN c ELSE s[i]]

\* s.replace(/\b([1-6])\b/g, (match, num) => String(parseInt(num) + 1))
ReplaceLoneOneToSix(s) ==
    [i \in DOMAIN s |->
        IF IsLoneDigit(s, i) /\ DigitVal(s[i]) \in 1..6 THEN Digits[DigitVal(s[i]) + 2]
        ELSE s[i]]

\* if (dayOfWeek !== "*") { if (!/^\d/.test(dayOfWeek) && dayOfWeek.includes("MON")) ... else ... }
ConvertDayOfWeekB(dayOfWeek) ==
    IF dayOfWeek = <<"*">> THEN dayOfWeek
    ELSE IF ~(dayOfWeek # <<>> /\ IsDigit(Head(dayOfWeek)))
            /\ IncludesStr(dayOfWeek, <<"M", "O", "N">>)
         THEN ReplaceNamesB(dayOfWeek, 1)
         ELSE ReplaceLoneOneToSix(ReplaceRanges(ReplaceLoneZero(dayOfWeek, "1")))

\* the exclusivity block and the template literal are those of implementation A
convertCronToEventBridgeB(s) ==
    LET parts == SplitSpaces(Trim(s))
    IN  IF Len(parts) # 5 THEN Thrown(FieldCountMessage)
        ELSE LET dayOfWeek == ConvertDayOfWeekB(parts[5])
             IN  Returned(FormatExpression(parts[1], parts[2],
                                           ResolveDayOfMonth(parts[3], dayOfWeek),
                                           parts[4],
                                           ResolveDayOfWeek(parts[3], dayOfWeek)))

-----------------------------------------------------------------------------
(* Implementation C (src/pages/Index.tsx)                                  *)

FieldCountMessageC ==
    "Unix cron must have exactly 5 fields: minute hour day month day-of-week"

\* /^[\d\*\-\,\/\?]+$/
MatchesCronRegex(part) ==
    /\ part # <<>>
    /\ \A i \in DOMAIN part : IsDigit(part[i]) \/ part[i] \in {"*", "-", ",", "/", "?"}

validateCronExpressionC(s) ==
    LET parts == SplitSpaces(Trim(s))
    IN  IF Len(parts) # 5 THEN FALSE
        ELSE \A i \in DOMAIN parts : MatchesCronRegex(parts[i])

\* if (dayOfWeek !== "*" && dayOfWeek !== "?")
\*   convertedDayOfWeek = dayOfWeek.replace(/\b0\b/g, "7").replace(/\b([1-6])\b/g, ...)
ConvertDayOfWeekC(dayOfWeek) ==
    IF dayOfWeek = <<"*">> \/ dayOfWeek = <<"?">> THEN dayOfWeek
    ELSE ReplaceLoneOneToSix(ReplaceLoneZero(dayOfWeek, "7"))

convertCronToEventBridgeC(s) ==
    LET parts == SplitSpaces(Trim(s))
    IN  IF Len(parts) # 5 THEN Thrown(FieldCountMessageC)
        ELSE Returned(FormatExpression(parts[1], parts[2], parts[3], parts[4],
                                       ConvertDayOfWeekC(parts[5])))

-----------------------------------------------------------------------------
(* Inputs                                                                  *)

\* longest day-of-week token built from every combination of TokenChars
MaxLen == 3

\* most elements of a generated comma list of weekday numbers
MaxList == 3

TokenChars == {"0", "1", "6", "7", "*", "-", ",", "/"}

RawTokens == UNION {[1..k -> TokenChars] : k \in 1..MaxLen}

RECURSIVE JoinWith(_, _)
JoinWith(ss, sep) ==
    IF Len(ss) = 0 THEN <<>>
    ELSE IF Len(ss) = 1 THEN ss[1]
    ELSE ss[1] \o sep \o JoinWith(Tail(ss), sep)

ListTokens ==
    UNION {{[i \in 1..(2 * k - 1) |-> IF i % 2 = 1 THEN Digits[ds[(i + 1) \div 2] + 1] ELSE ","] :
               ds \in [1..k -> {0, 1, 3, 5, 6, 7}]} : k \in 2..MaxList}

NamedTokens ==
    {<<"S","U","N">>, <<"M","O","N">>, <<"T","U","E">>, <<"W","E","D">>, <<"T","H","U">>,
     <<"F","R","I">>, <<"S","A","T">>, <<"m","o","n">>, <<"S","u","n">>, <<"s","a","T">>,
     <<"M","O","N","-","F","R","I">>, <<"m","o","n","-","f","r","i">>,
     <<"M","O","N",",","W","E","D">>, <<"M","O","N","/","2">>, <<"J","A","N">>}

OtherDowTokens ==
    {<<"1","-","5","/","2">>, <<"0","-","6","/","3">>, <<"*","/","1","5">>, <<"1","/","1","0">>,
     <<"8">>, <<"9">>, <<"0","1">>, <<"1","0">>, <<"L">>, <<"5","L">>, <<"3","#","2">>, <<"?">>}

DowTokens == RawTokens \cup ListTokens \cup NamedTokens \cup OtherDowTokens

DomTokens ==
    {<<"*">>, <<"1">>, <<"1","5">>, <<"3","1">>, <<"1","-","7">>, <<"*","/","2">>,
     <<"1",",","1","5">>, <<"0">>, <<"3","2">>, <<"L">>, <<"1","5","W">>, <<"?">>}

SomeDowTokens ==
    {<<"*">>, <<"0">>, <<"1">>, <<"6">>, <<"7">>, <<"1","-","5">>, <<"1",",","3",",","5">>,
     <<"*","/","2">>, <<"1","/","2">>, <<"M","O","N">>, <<"8">>}

\* the unix entries of the examples gallery
ExampleInputs ==
    { <<"1","5"," ","1","2"," ","*"," ","*"," ","*">>,
      <<"0"," ","1","8"," ","*"," ","*"," ","1","-","5">>,
      <<"0"," ","8"," ","1"," ","*"," ","*">>,
      <<"0","/","1","5"," ","*"," ","*"," ","*"," ","*">>,
      <<"0","/","1","0"," ","*"," ","*"," ","*"," ","1","-","5">>,
      <<"0","/","5"," ","8","-","1","7"," ","*"," ","*"," ","1","-","5">>,
      <<"3","0"," ","1","4"," ","*"," ","*"," ","0">>,
      <<"0"," ","8"," ","*"," ","*"," ","1",",","3",",","5">>,
      <<"0"," ","1","2"," ","*"," ","J","A","N",",","J","U","N",",","D","E","C"," ","*">>,
      <<"0"," ","9"," ","1","-","7"," ","*"," ","1">> }

\* const examples = [ { unix, description, eventbridge }, ... ]
examples ==
    <<
       [unix        |-> <<"1","5"," ","1","2"," ","*"," ","*"," ","*">>,
        eventbridge |-> <<"1","5"," ","1","2"," ","*"," ","*"," ","?"," ","*">>],
       [unix        |-> <<"0"," ","1","8"," ","*"," ","*"," ","1","-","5">>,
        eventbridge |-> <<"0"," ","1","8"," ","?"," ","*"," ","2","-","6"," ","*">>],
       [unix        |-> <<"0"," ","8"," ","1"," ","*"," ","*">>,
        eventbridge |-> <<"0"," ","8"," ","1"," ","*"," ","?"," ","*">>],
       [unix        |-> <<"0","/","1","5"," ","*"," ","*"," ","*"," ","*">>,
        eventbridge |-> <<"0","/","1","5"," ","*"," ","*"," ","*"," ","?"," ","*">>],
       [unix        |-> <<"0","/","1","0"," ","*"," ","*"," ","*"," ","1","-","5">>,
        eventbridge |-> <<"0","/","1","0"," ","*"," ","?"," ","*"," ","2","-","6"," ","*">>],
       [unix        |-> <<"0","/","5"," ","8","-","1","7"," ","*"," ","*"," ","1","-","5">>,
        eventbridge |-> <<"0","/","5"," ","8","-","1","7"," ","?"," ","*"," ","2","-","6"," ","*">>],
       [unix        |-> <<"3","0"," ","1","4"," ","*"," ","*"," ","0">>,
        eventbridge |-> <<"3","0"," ","1","4"," ","?"," ","*"," ","1"," ","*">>],
       [unix        |-> <<"0"," ","8"," ","*"," ","*"," ","1",",","3",",","5">>,
        eventbridge |-> <<"0"," ","8"," ","?"," ","*"," ","2",",","4",",","6"," ","*">>],
       [unix        |-> <<"0"," ","1","2"," ","*"," ","J","A","N",",","J","U","N",",","D","E","C"," ","*">>,
        eventbridge |-> <<"0"," ","1","2"," ","*"," ","J","A","N",",","J","U","N",",","D","E","C"," ","?"," ","*">>],
       [unix        |-> <<"0"," ","9"," ","1","-","7"," ","*"," ","1">>,
        eventbridge |-> <<"0"," ","9"," ","?"," ","*"," ","2"," ","*">>]
    >>

Expression(minute, hour, dayOfMonth, month, dayOfWeek) ==
    JoinWith(<<minute, hour, dayOfMonth, month, dayOfWeek>>, <<" ">>)

\* largest number written as a single-integer token
MaxNum == 60

\* numbers on both sides of every field's limits
BoundaryNums == {0, 1, 7, 8, 12, 13, 23, 24, 31, 32, 59, 60}

IntTokens == {NumToStr(n) : n \in 0..MaxNum}

PairTokens(sep) == {NumToStr(a) \o <<sep>> \o NumToStr(b) : a \in BoundaryNums, b \in BoundaryNums}

StepValues == {<<"0">>, <<"1">>, <<"5">>, <<"1","5">>, <<"-","1">>, <<"x">>, <<>>}

StepBases ==
    {<<"*">>, <<>>} \cup {NumToStr(n) : n \in {0, 1, 7, 8, 12, 13, 31, 32, 59, 60}}
    \cup {NumToStr(a) \o <<"-">> \o NumToStr(b) : a \in {0, 1, 8, 24}, b \in {0, 7, 12, 23, 60}}

StepTokens == {base \o <<"/">> \o step : base \in StepBases, step \in StepValues}

LowerChar(c) ==
    IF c \in Range(UpperLetters)
    THEN LowerLetters[CHOOSE i \in DOMAIN UpperLetters : UpperLetters[i] = c]
    ELSE c

\* a name in upper case, in lower case and capitalised
NameTokens ==
    UNION {{n, [i \in DOMAIN n |-> LowerChar(n[i])],
            [i \in DOMAIN n |-> IF i = 1 THEN n[i] ELSE LowerChar(n[i])]} :
              n \in Range(DayNames) \cup Range(MonthNames)}

\* tokens outside the grammar of a field expression
MalformedTokens ==
    {<<"L">>, <<"1","L">>, <<"5","L">>, <<"W">>, <<"1","5","W">>, <<"1","W">>, <<"3","#","2">>,
     <<"#">>, <<"5","x">>, <<"x","5">>, <<"1","-","5","-","7">>, <<"5","/","2","/","3">>,
     <<"1","-","3",",","5">>, <<"1",",","3","-","5">>, <<"M","O","N","X","Y","Z">>,
     <<"J","A","N","X","Y","Z">>, <<"1",",",",","3">>, <<"1",",">>, <<"1","-">>, <<"-","1">>,
     <<"?">>, <<"1",".","5">>, <<"1","-","5","x">>, <<"0","x","5">>, <<"*","*">>}

FieldTokens ==
    IntTokens \cup PairTokens(",") \cup PairTokens("-") \cup StepTokens \cup NameTokens
    \cup MalformedTokens

\* the expression that is * everywhere but token at position k
OneField(k, token) ==
    JoinWith([i \in 1..5 |-> IF i = k THEN token ELSE <<"*">>], <<" ">>)

\* number of tokens of the longest generated expression
MaxFields == 7

TokenLists ==
    {[i \in 1..k |-> <<"*">>] : k \in 0..MaxFields}
    \cup {[i \in 1..k |-> <<"1">>] : k \in 1..MaxFields}
    \cup { << <<"0">>, <<"9">>, <<"*">>, <<"*">>, <<"1">> >>,
           << <<"0">>, <<"9">>, <<"1">>, <<"*">>, <<"*">> >>,
           << <<"6","0">>, <<"9">>, <<"*">>, <<"*">>, <<"1">> >>,
           << <<"0">>, <<"9">>, <<"*">>, <<"*">> >>,
           << <<"0">>, <<"9">>, <<"*">>, <<"*">>, <<"1">>, <<"*">> >> }

Gaps == {<<" ">>, <<" ", " ">>, <<"\t">>, <<" ", "\t">>}
Margins == {<<>>, <<" ">>, <<"\t", " ">>, <<"\n">>}

\* token lists written with every kind of whitespace around and between
SpacedInputs ==
    {lead \o JoinWith(ts, gap) \o trail :
        ts \in TokenLists, gap \in Gaps, lead \in Margins, trail \in Margins}

MixedNums == {<<"0">>, <<"7">>, <<"1","3">>, <<"6","0">>}

\* every day-of-week token with a wildcard and a specific day-of-month,
\* every day-of-month token with a few day-of-week tokens, every field token at
\* every position, in-range and out-of-range numbers in all five fields at
\* once, and expressions with other field counts and other whitespace
Inputs ==
    {Expression(<<"0">>, <<"9">>, dom, <<"*">>, dow) :
        dom \in {<<"*">>, <<"1">>}, dow \in DowTokens}
    \cup {Expression(<<"0">>, <<"9">>, dom, <<"*">>, dow) :
        dom \in DomTokens, dow \in SomeDowTokens}
    \cup ExampleInputs
    \cup {OneField(k, token) : k \in 1..5, token \in FieldTokens}
    \cup {Expression(mi, h, dom, mo, dow) :
            mi \in MixedNums, h \in MixedNums, dom \in MixedNums, mo \in MixedNums,
            dow \in MixedNums}
    \cup SpacedInputs

-----------------------------------------------------------------------------
(* The component's state after construction (useState)                     *)

InitialUnixCron == <<"0", " ", "9", " ", "*", " ", "*", " ", "1">>

UIInit ==
    /\ unixCron = InitialUnixCron
    /\ eventBridgeCron = <<>>
    /\ isValid = TRUE
    /\ error = ""
    /\ effectPending = TRUE

-----------------------------------------------------------------------------
(* Calls of the two functions on one input                                 *)

Init ==
    /\ impl = "A"
    /\ cronExpression \in Inputs
    /\ pc = "start"
    /\ valid = FALSE
    /\ converted = Returned(<<>>)
    /\ UIInit

Validate ==
    /\ impl = "A"
    /\ pc = "start"
    /\ valid' = validateCronExpression(cronExpression)
    /\ pc' = "validated"
    /\ UNCHANGED <<impl, cronExpression, converted, uiVars>>

Convert ==
    /\ impl = "A"
    /\ pc = "validated"
    /\ converted' = convertCronToEventBridge(cronExpression)
    /\ pc' = "done"
    /\ UNCHANGED <<impl, cronExpression, valid, uiVars>>

Next == Validate \/ Convert

Spec == Init /\ [][Next]_vars

-----------------------------------------------------------------------------
(* Calls of the two functions of each of the three implementations         *)

\* the seven Unix weekdays 0..6, each as the day-of-week of 0 0 * * n
WeekdayInputs ==
    {Expression(<<"0">>, <<"0">>, <<"*">>, <<"*">>, <<Digits[n + 1]>>) : n \in 0..6}

ImplInputs ==
    WeekdayInputs
    \cup {Expression(<<"0">>, <<"9">>, dom, <<"*">>, dow) :
            dom \in {<<"*">>, <<"1">>}, dow \in DowTokens}
    \cup {Expression(<<"0">>, <<"9">>, dom, <<"*">>, dow) :
            dom \in DomTokens, dow \in SomeDowTokens}
    \cup ExampleInputs
    \cup SpacedInputs

InitImpls ==
    /\ impl \in {"A", "B", "C"}
    /\ cronExpression \in ImplInputs
    /\ pc = "start"
    /\ valid = FALSE
    /\ converted = Returned(<<>>)
    /\ UIInit

ValidateB ==
    /\ impl = "B"
    /\ pc = "start"
    /\ valid' = validateCronExpressionB(cronExpression)
    /\ pc' = "validated"
    /\ UNCHANGED <<impl, cronExpression, converted, uiVars>>

ConvertB ==
    /\ impl = "B"
    /\ pc = "validated"
    /\ converted' = convertCronToEventBridgeB(cronExpression)
    /\ pc' = "done"
    /\ UNCHANGED <<impl, cronExpression, valid, uiVars>>

ValidateC ==
    /\ impl = "C"
    /\ pc = "start"
    /\ valid' = validateCronExpressionC(cronExpression)
    /\ pc' = "validated"
    /\ UNCHANGED <<impl, cronExpression, converted, uiVars>>

ConvertC ==
    /\ impl = "C"
    /\ pc = "validated"
    /\ converted' = convertCronToEventBridgeC(cronExpression)
    /\ pc' = "done"
    /\ UNCHANGED <<impl, cronExpression, valid, uiVars>>

NextImpls == Validate \/ Convert \/ ValidateB \/ ConvertB \/ ValidateC \/ ConvertC

SpecImpls == InitImpls /\ [][NextImpls]_vars

-----------------------------------------------------------------------------
(* The component: the input box, the examples gallery and the effect       *)

InvalidMessage ==
    "Invalid Unix cron expression. Check field values, ranges, and note that L, W, and # wildcards are not supported in Unix cron."

\* what a user may type or pick
UIInputs ==
    ExampleInputs
    \cup { InitialUnixCron, <<>>, <<" ">>, <<" ", "\t">>,
           <<"6","0"," ","9"," ","*"," ","*"," ","1">>,
           <<"0"," ","9"," ","*"," ","*"," ","L">>,
           <<"0"," ","9"," ","*"," ","*">>,
           <<"0"," ","9"," ","*"," ","*"," ","1"," ","*">>,
           <<" ","0"," "," ","9"," ","*","\t","*"," ","1"," ">>,
           <<"0"," ","9"," ","1"," ","*"," ","1">> }

\* onChange={(e) => setUnixCron(e.target.value)} and the gallery's
\* onClick={() => setUnixCron(example.unix)}; the effect is scheduled when
\* the dependency unixCron has changed
SetUnixCron(s) ==
    /\ unixCron' = s
    /\ effectPending' = (effectPending \/ s # unixCron)
    /\ UNCHANGED <<eventBridgeCron, isValid, error, callVars>>

\* Effect whose catch block does not clear eventBridgeCron
EffectKeepsOutput ==
    /\ effectPending
    /\ effectPending' = FALSE
    /\ IF Trim(unixCron) = <<>>
       THEN /\ eventBridgeCron' = <<>>
            /\ isValid' = TRUE
            /\ error' = ""
       ELSE IF ~validateCronExpression(unixCron)
       THEN /\ isValid' = FALSE
            /\ error' = InvalidMessage
            /\ eventBridgeCron' = eventBridgeCron
       ELSE LET result == convertCronToEventBridge(unixCron)
            IN  IF result.threw
                THEN /\ isValid' = FALSE
                     /\ error' = result.message
                     /\ eventBridgeCron' = eventBridgeCron
                ELSE /\ eventBridgeCron' = result.value
                     /\ isValid' = TRUE
                     /\ error' = ""
    /\ UNCHANGED <<unixCron, callVars>>

\* Effect without the early return for a blank input
EffectValidatesBlank ==
    /\ effectPending
    /\ effectPending' = FALSE
    /\ IF ~validateCronExpression(unixCron)
       THEN /\ isValid' = FALSE
            /\ error' = InvalidMessage
            /\ eventBridgeCron' = <<>>
       ELSE LET result == convertCronToEventBridge(unixCron)
            IN  IF result.threw
                THEN /\ isValid' = FALSE
                     /\ error' = result.message
                     /\ eventBridgeCron' = <<>>
                ELSE /\ eventBridgeCron' = result.value
                     /\ isValid' = TRUE
                     /\ error' = ""
    /\ UNCHANGED <<unixCron, callVars>>

\* useEffect(() => { ... }, [unixCron])
Effect ==
    /\ effectPending
    /\ effectPending' = FALSE
    /\ IF Trim(unixCron) = <<>>
       THEN /\ eventBridgeCron' = <<>>
            /\ isValid' = TRUE
            /\ error' = ""
       ELSE IF ~validateCronExpression(unixCron)
       THEN /\ isValid' = FALSE
            /\ error' = InvalidMessage
            /\ eventBridgeCron' = <<>>
       ELSE LET result == convertCronToEventBridge(unixCron)
            IN  IF result.threw
                THEN /\ isValid' = FALSE
                     /\ error' = result.message
                     /\ eventBridgeCron' = <<>>
                ELSE /\ eventBridgeCron' = result.value
                     /\ isValid' = TRUE
                     /\ error' = ""
    /\ UNCHANGED <<unixCron, callVars>>

InitUI ==
    /\ UIInit
    /\ impl = "A"
    /\ cronExpression = InitialUnixCron
    /\ pc = "start"
    /\ valid = FALSE
    /\ converted = Returned(<<>>)

NextUI == (\E s \in UIInputs : SetUnixCron(s)) \/ Effect

SpecUI == InitUI /\ [][NextUI]_vars

-----------------------------------------------------------------------------
(* Properties of implementation A                                          *)

\* both calls have returned and validateCronExpression said true
Accepted == pc = "done" /\ valid

\* the five source fields and the fields of the returned string, split on
\* single spaces
InFields == SplitSpaces(Trim(cronExpression))
OutFields == SplitChar(converted.value, " ")

Star == <<"*">>
Unspecified == <<"?">>

\* f(0) = 1, f(n) = n + 1: Unix weekday number to EventBridge weekday number
F(n) == IF n = 0 THEN 1 ELSE n + 1

IsWeekdayDigit(c) == IsDigit(c) /\ DigitVal(c) <= 6

\* C1: for every accepted input the returned expression never has both its
\* day-of-month and its day-of-week field specific: one of them is * or ?
C1_MutualExclusivity ==
    Accepted =>
        /\ ~converted.threw
        /\ Len(OutFields) >= 5
        /\ (OutFields[3] \in {Star, Unspecified} \/ OutFields[5] \in {Star, Unspecified})

\* an accepted input with both source day fields specific, answered with ? as day-of-week
C1_Witness ==
    /\ Accepted
    /\ InFields[3] # Star /\ InFields[5] # Star
    /\ OutFields[3] = InFields[3] /\ OutFields[5] = Unspecified

C3_SpecificDayOfMonth ==
    Accepted =>
        /\ ~converted.threw
        /\ Len(OutFields) >= 5
        /\ (InFields[3] # Star /\ InFields[5] = Star) =>
              (OutFields[3] = InFields[3] /\ OutFields[5] = Unspecified)
        /\ (OutFields[3] = Unspecified) # (OutFields[5] = Unspecified)

\* C4: for every accepted input the returned string splits on single spaces
\* into exactly 6 non-empty fields, the 6th being *
C4_SixFields ==
    Accepted =>
        /\ ~converted.threw
        /\ Len(OutFields) = 6
        /\ \A i \in 1..6 : OutFields[i] # <<>>
        /\ OutFields[6] = Star

\* an accepted input whose day-of-week was rewritten, answered with six fields
C4_Witness ==
    /\ Accepted
    /\ Len(OutFields) = 6
    /\ OutFields[5] # InFields[5]
    /\ OutFields[5] # Unspecified

\* C5: for every accepted input with day-of-month * and a day-of-week that is
\* one digit n in 0..6, the returned expression is the source's minute, hour
\* and month with day-of-month ? and day-of-week f(n)
C5_SingleWeekday ==
    (/\ Accepted
     /\ InFields[3] = Star
     /\ Len(InFields[5]) = 1
     /\ IsWeekdayDigit(InFields[5][1])) =>
        /\ ~converted.threw
        /\ converted.value =
              FormatExpression(InFields[1], InFields[2], Unspecified, InFields[4],
                               NumToStr(F(DigitVal(InFields[5][1]))))

\* convert("30 14 * * 0") = "30 14 ? * 1 *"
C5_Witness ==
    /\ Accepted
    /\ cronExpression = <<"3","0"," ","1","4"," ","*"," ","*"," ","0">>
    /\ converted.value = <<"3","0"," ","1","4"," ","?"," ","*"," ","1"," ","*">>

\* C6: for every accepted input with day-of-month * and a day-of-week range
\* a-b (0 <= a <= b <= 6), the output day-of-week is f(a)-f(b)
C6_RangeRemap ==
    (/\ Accepted
     /\ InFields[3] = Star
     /\ Len(InFields[5]) = 3
     /\ IsWeekdayDigit(InFields[5][1])
     /\ InFields[5][2] = "-"
     /\ IsWeekdayDigit(InFields[5][3])) =>
        /\ ~converted.threw
        /\ Len(OutFields) >= 5
        /\ OutFields[5] = NumToStr(F(DigitVal(InFields[5][1]))) \o <<"-">>
                             \o NumToStr(F(DigitVal(InFields[5][3])))

\* the base of a step expression remapped once: f(n) for a weekday digit,
\* * for *, f(a)-f(b) for a range of weekday digits
IsStepBase(base) ==
    \/ base = Star
    \/ Len(base) = 1 /\ IsWeekdayDigit(base[1])
    \/ Len(base) = 3 /\ IsWeekdayDigit(base[1]) /\ base[2] = "-" /\ IsWeekdayDigit(base[3])

RemappedBase(base) ==
    IF base = Star THEN Star
    ELSE IF Len(base) = 1 THEN NumToStr(F(DigitVal(base[1])))
    ELSE NumToStr(F(DigitVal(base[1]))) \o <<"-">> \o NumToStr(F(DigitVal(base[3])))

\* C7: for every accepted input with day-of-month * whose day-of-week is a
\* step expression base/step, the output day-of-week is the base remapped
\* once by f, a slash, and the step unchanged
C7_StepRemap ==
    (/\ Accepted
     /\ InFields[3] = Star
     /\ Len(SplitChar(InFields[5], "/")) = 2
     /\ IsStepBase(SplitChar(InFields[5], "/")[1])) =>
        /\ ~converted.threw
        /\ Len(OutFields) >= 5
        /\ OutFields[5] = RemappedBase(SplitChar(InFields[5], "/")[1]) \o <<"/">>
                             \o SplitChar(InFields[5], "/")[2]

\* SUN = 1, MON = 2, ..., SAT = 7
DayNumber(name) == CHOOSE k \in DOMAIN DayNames : DayNames[k] = UpperStr(name)

IsDayName(s) == Len(s) = 3 /\ UpperStr(s) \in Range(DayNames)

\* C8: for every accepted input with day-of-month * whose day-of-week is a
\* day name in any letter case, the output day-of-week is that day's
\* EventBridge number; a range of two names becomes the range of their numbers
C8_NamedDays ==
    (Accepted /\ InFields[3] = Star) =>
        LET dow == InFields[5]
        IN  /\ IsDayName(dow) => OutFields[5] = NumToStr(DayNumber(dow))
            /\ (/\ Len(dow) = 7
                /\ IsDayName(SubSeq(dow, 1, 3))
                /\ dow[4] = "-"
                /\ IsDayName(SubSeq(dow, 5, 7))) =>
                  OutFields[5] = NumToStr(DayNumber(SubSeq(dow, 1, 3))) \o <<"-">>
                                    \o NumToStr(DayNumber(SubSeq(dow, 5, 7)))

\* C9: the Unix day-of-week 7 (Sunday) is remapped like 0, to 1
C9_SevenIsSunday ==
    (Accepted /\ InFields[3] = Star /\ InFields[5] = <<"7">>) =>
        /\ ~converted.threw
        /\ Len(OutFields) >= 5
        /\ OutFields[5] = <<"1">>

IsWeekdayList(s) ==
    /\ Len(s) >= 3
    /\ Len(s) % 2 = 1
    /\ \A i \in DOMAIN s : IF i % 2 = 1 THEN IsWeekdayDigit(s[i]) ELSE s[i] = ","

\* C10: for every accepted input with day-of-month * whose day-of-week is a
\* comma list of digits in 0..6, the output day-of-week is the list of the
\* same length and order with every element n replaced by f(n)
C10_ListRemap ==
    (Accepted /\ InFields[3] = Star /\ IsWeekdayList(InFields[5])) =>
        /\ ~converted.threw
        /\ Len(OutFields) >= 5
        /\ OutFields[5] =
              [i \in DOMAIN InFields[5] |->
                  IF i % 2 = 1 THEN Digits[F(DigitVal(InFields[5][i])) + 1] ELSE ","]

\* convert("0 8 * * 1,3,5") = "0 8 ? * 2,4,6 *"
C10_Witness ==
    /\ Accepted
    /\ cronExpression = <<"0"," ","8"," ","*"," ","*"," ","1",",","3",",","5">>
    /\ converted.value = <<"0"," ","8"," ","?"," ","*"," ","2",",","4",",","6"," ","*">>

\* C11: convertCronToEventBridge throws for every input on which
\* validateCronExpression returns false and returns a string for every input on
\* which it returns true
C11_ConvertFailsIffInvalid ==
    pc = "done" => (converted.threw <=> ~valid)

\* C12: a day-of-month token that contains L or W anywhere and a day-of-week
\* token that contains # or L anywhere make validateCronExpression return false
C12_UnsupportedSyntax ==
    (pc = "done" /\ Len(InFields) = 5) =>
        /\ (Includes(InFields[3], "L") \/ Includes(InFields[3], "W")) => ~valid
        /\ (Includes(InFields[5], "#") \/ Includes(InFields[5], "L")) => ~valid

\* the grammar of a field expression: *, a decimal integer, a day or month
\* name, a comma list of integers, a range start-end, base/step or range/step
IsInteger(s) == s # <<>> /\ \A i \in DOMAIN s : IsDigit(s[i])

IsName(s) == Len(s) = 3 /\ UpperStr(s) \in Range(DayNames) \cup Range(MonthNames)

IsIntegerList(s) ==
    LET items == SplitChar(s, ",")
    IN  Len(items) >= 2 /\ \A i \in DOMAIN items : IsInteger(items[i])

IsIntegerRange(s) ==
    LET ends == SplitChar(s, "-")
    IN  Len(ends) = 2 /\ IsInteger(ends[1]) /\ IsInteger(ends[2])

IsStepExpression(s) ==
    LET pieces == SplitChar(s, "/")
    IN  /\ Len(pieces) = 2
        /\ pieces[1] = Star \/ IsInteger(pieces[1]) \/ IsIntegerRange(pieces[1])
        /\ IsInteger(pieces[2])

InGrammar(s) ==
    \/ s = Star
    \/ IsInteger(s)
    \/ IsName(s)
    \/ IsIntegerList(s)
    \/ IsIntegerRange(s)
    \/ IsStepExpression(s)

\* C13: every field of an input that validateCronExpression accepts is a
\* member of the field expression grammar
C13_AcceptedInGrammar ==
    (pc = "done" /\ valid) => \A k \in 1..5 : InGrammar(InFields[k])

\* position i of s starts a token: a non-space that begins s or follows a space
StartsToken(s, i) == ~IsSpace(s[i]) /\ (i = 1 \/ IsSpace(s[i - 1]))

NumTokens(s) == Cardinality({i \in DOMAIN s : StartsToken(s, i)})

\* s with the whitespace at both ends removed and every other run of
\* whitespace replaced by one space
RECURSIVE SqueezeFrom(_, _)
SqueezeFrom(s, i) ==
    IF i > Len(s) THEN <<>>
    ELSE (IF ~IsSpace(s[i]) THEN <<s[i]>>
          ELSE IF i > 1 /\ ~IsSpace(s[i - 1]) /\ \E j \in (i + 1)..Len(s) : ~IsSpace(s[j])
               THEN <<" ">>
               ELSE <<>>)
         \o SqueezeFrom(s, i + 1)

Squeeze(s) == SqueezeFrom(s, 1)

\* C14: when the input does not consist of exactly 5 whitespace-separated
\* tokens validateCronExpression returns false and convertCronToEventBridge
\* throws the field-count error; with exactly 5 tokens it does not throw; and
\* both answer as they do on the same tokens separated by single spaces
C14_FieldCount ==
    pc = "done" =>
        /\ NumTokens(cronExpression) # 5 =>
              (~valid /\ converted.threw /\ converted.message = FieldCountMessage)
        /\ NumTokens(cronExpression) = 5 => ~converted.threw
        /\ valid = validateCronExpression(Squeeze(cronExpression))
        /\ converted = convertCronToEventBridge(Squeeze(cronExpression))

\* "0 9 * * 1" written with leading, trailing and repeated whitespace
C14_Witness ==
    /\ pc = "done"
    /\ valid
    /\ NumTokens(cronExpression) = 5
    /\ cronExpression # Squeeze(cronExpression)
    /\ IsSpace(cronExpression[1])
    /\ IsSpace(cronExpression[Len(cronExpression)])
    /\ converted.value = <<"0"," ","9"," ","?"," ","*"," ","2"," ","*">>

\* the number a string of decimal digits writes
RECURSIVE DecimalValue(_)
DecimalValue(s) ==
    IF s = <<>> THEN 0 ELSE 10 * DecimalValue(SubSeq(s, 1, Len(s) - 1)) + DigitVal(s[Len(s)])

\* the inclusive domains: minute, hour, day-of-month, month, day-of-week
FieldMin == <<0, 0, 1, 1, 0>>
FieldMax == <<59, 23, 31, 12, 7>>

InDomain(k, s) == DecimalValue(s) >= FieldMin[k] /\ DecimalValue(s) <= FieldMax[k]

\* a single integer or a comma list of integers
IsNumeric(s) == IsInteger(s) \/ IsIntegerList(s)

\* every element of a single integer or comma list lies in the domain of field k
ElementsInDomain(k, s) ==
    \A i \in DOMAIN SplitChar(s, ",") : InDomain(k, SplitChar(s, ",")[i])

\* C15: when each of the five fields is *, an integer or a comma list of
\* integers, validateCronExpression returns true iff in every field that is
\* not * every element lies in that field's inclusive domain
C15_NumbersInDomain ==
    (/\ pc = "done"
     /\ NumTokens(cronExpression) = 5
     /\ \A k \in 1..5 : InFields[k] = Star \/ IsNumeric(InFields[k])) =>
        (valid <=> \A k \in 1..5 : InFields[k] = Star \/ ElementsInDomain(k, InFields[k]))

\* validate("60 9 * * 1") = false
C15_Witness ==
    /\ pc = "done"
    /\ cronExpression = <<"6","0"," ","9"," ","*"," ","*"," ","1">>
    /\ ~valid

\* a range start-end of decimal integers, alone or as the base of a step
\* expression whose step is a positive decimal integer
IsRangeOrRangeStep(s) ==
    \/ IsIntegerRange(s)
    \/ /\ Len(SplitChar(s, "/")) = 2
       /\ IsIntegerRange(SplitChar(s, "/")[1])
       /\ IsInteger(SplitChar(s, "/")[2])
       /\ DecimalValue(SplitChar(s, "/")[2]) > 0

RangeStart(s) == DecimalValue(SplitChar(SplitChar(s, "/")[1], "-")[1])
RangeEnd(s) == DecimalValue(SplitChar(SplitChar(s, "/")[1], "-")[2])

\* min <= start <= end <= max for field k
RangeInDomain(k, s) ==
    FieldMin[k] <= RangeStart(s) /\ RangeStart(s) <= RangeEnd(s) /\ RangeEnd(s) <= FieldMax[k]

\* C16: when each of the five fields is *, an integer, a comma list of
\* integers, or a range start-end of integers (alone or as the base of a
\* step), validateCronExpression returns true iff every range has
\* min <= start <= end <= max and every other number lies in its domain
C16_RangeOrdered ==
    (/\ pc = "done"
     /\ NumTokens(cronExpression) = 5
     /\ \A k \in 1..5 :
           InFields[k] = Star \/ IsNumeric(InFields[k]) \/ IsRangeOrRangeStep(InFields[k])) =>
        (valid <=>
            \A k \in 1..5 :
               \/ InFields[k] = Star
               \/ IsNumeric(InFields[k]) /\ ElementsInDomain(k, InFields[k])
               \/ IsRangeOrRangeStep(InFields[k]) /\ RangeInDomain(k, InFields[k]))

\* the inverted day-of-week range 6-0 is rejected
C16_Witness ==
    /\ pc = "done"
    /\ cronExpression = <<"0"," ","9"," ","*"," ","*"," ","6","-","0">>
    /\ ~valid

\* a step expression base/step with one slash whose base is empty, *, an
\* integer or a range of integers, and whose step is empty, a word without
\* digits, an integer or a negative integer
IsStepShaped(s) ==
    LET pieces == SplitChar(s, "/")
    IN  /\ Len(pieces) = 2
        /\ \/ pieces[1] \in {<<>>, Star}
           \/ IsInteger(pieces[1])
           \/ IsIntegerRange(pieces[1])
        /\ \/ \A i \in DOMAIN pieces[2] : IsLetter(pieces[2][i])
           \/ IsInteger(pieces[2])
           \/ Len(pieces[2]) >= 2 /\ pieces[2][1] = "-" /\ IsInteger(Tail(pieces[2]))

\* the step is an integer > 0 and the base is *, a range within the domain
\* of field k, or an integer within it
StepInDomain(k, s) ==
    LET base == SplitChar(s, "/")[1]
        step == SplitChar(s, "/")[2]
    IN  /\ IsInteger(step)
        /\ DecimalValue(step) > 0
        /\ \/ base = Star
           \/ IsInteger(base) /\ InDomain(k, base)
           \/ IsIntegerRange(base) /\ RangeInDomain(k, base)

\* C17: when each of the five fields is *, an integer, a comma list, a range
\* or a step expression, validateCronExpression returns true iff every step
\* expression has an integer step > 0 and a base that is *, a valid range or
\* an integer of the field's domain, and every other field is in its domain
C17_StepAccepted ==
    (/\ pc = "done"
     /\ NumTokens(cronExpression) = 5
     /\ \A k \in 1..5 :
           \/ InFields[k] = Star
           \/ IsNumeric(InFields[k])
           \/ IsIntegerRange(InFields[k])
           \/ IsStepShaped(InFields[k])) =>
        (valid <=>
            \A k \in 1..5 :
               \/ InFields[k] = Star
               \/ IsNumeric(InFields[k]) /\ ElementsInDomain(k, InFields[k])
               \/ IsIntegerRange(InFields[k]) /\ RangeInDomain(k, InFields[k])
               \/ IsStepShaped(InFields[k]) /\ StepInDomain(k, InFields[k]))

\* the minute 60/5, whose base is outside the domain, is rejected
C17_Witness ==
    /\ pc = "done"
    /\ cronExpression = <<"6","0","/","5"," ","*"," ","*"," ","*"," ","*">>
    /\ ~valid

IsMonthName(s) == Len(s) = 3 /\ UpperStr(s) \in Range(MonthNames)

\* C18: when each of the five fields is *, an integer, a comma list or a
\* three-letter day or month name in any letter case, validateCronExpression
\* returns true iff every day name stands in the day-of-week field, every
\* month name in the month field, and every number lies in its domain
C18_NamesInTheirField ==
    (/\ pc = "done"
     /\ NumTokens(cronExpression) = 5
     /\ \A k \in 1..5 :
           InFields[k] = Star \/ IsNumeric(InFields[k]) \/ IsName(InFields[k])) =>
        (valid <=>
            \A k \in 1..5 :
               \/ InFields[k] = Star
               \/ IsNumeric(InFields[k]) /\ ElementsInDomain(k, InFields[k])
               \/ k = 5 /\ IsDayName(InFields[k])
               \/ k = 4 /\ IsMonthName(InFields[k]))

\* the month name JAN as day-of-week is rejected
C18_Witness ==
    /\ pc = "done"
    /\ cronExpression = <<"*"," ","*"," ","*"," ","*"," ","J","A","N">>
    /\ ~valid

\* the tokens of the input, read off the input squeezed to single spaces
InTokens == SplitChar(Squeeze(cronExpression), " ")

\* C19: for every accepted input the minute, hour and month fields of the
\* returned expression are the input's minute, hour and month tokens,
\* character for character
C19_FrameFields ==
    Accepted =>
        /\ ~converted.threw
        /\ Len(OutFields) = 6
        /\ OutFields[1] = InTokens[1]
        /\ OutFields[2] = InTokens[2]
        /\ OutFields[4] = InTokens[4]

\* convert("0 12 * JAN,JUN,DEC *") = "0 12 * JAN,JUN,DEC ? *"
C19_Witness ==
    /\ Accepted
    /\ cronExpression = <<"0"," ","1","2"," ","*"," ","J","A","N",",","J","U","N",",",
                          "D","E","C"," ","*">>
    /\ converted.value = <<"0"," ","1","2"," ","*"," ","J","A","N",",","J","U","N",",",
                           "D","E","C"," ","?"," ","*">>

-----------------------------------------------------------------------------
(* Properties of the component (implementation A)                          *)

IsBlank(s) == \A i \in DOMAIN s : IsSpace(s[i])

\* C20: once the effect has processed a non-blank input, either the input is
\* valid, eventBridgeCron is its conversion, isValid is true and error is
\* empty, or the input is invalid, isValid is false, eventBridgeCron is empty
\* and error is not; whatever was typed before
C20_EffectOutcome ==
    (~effectPending /\ ~IsBlank(unixCron)) =>
        IF validateCronExpression(unixCron)
        THEN /\ ~convertCronToEventBridge(unixCron).threw
             /\ eventBridgeCron = convertCronToEventBridge(unixCron).value
             /\ isValid
             /\ error = ""
        ELSE /\ ~isValid
             /\ eventBridgeCron = <<>>
             /\ error # ""

\* the invalid "60 9 * * 1" processed after the initial valid input
C20_Witness ==
    /\ ~effectPending
    /\ unixCron = <<"6","0"," ","9"," ","*"," ","*"," ","1">>
    /\ ~isValid
    /\ eventBridgeCron = <<>>
    /\ error = InvalidMessage

-----------------------------------------------------------------------------
(* The examples gallery                                                    *)

\* C21: for every entry of the examples gallery, validateCronExpression
\* accepts entry.unix and convertCronToEventBridge returns exactly
\* entry.eventbridge.
C21_Gallery ==
    \A i \in DOMAIN examples :
        (pc = "done" /\ cronExpression = examples[i].unix)
            => /\ valid
               /\ ~converted.threw
               /\ converted.value = examples[i].eventbridge

-----------------------------------------------------------------------------
(* Properties of the three implementations                                 *)

\* C22: in each of the three implementations the seven inputs 0 0 * * n,
\* n = 0..6, convert to outputs whose day-of-week fields are 1, 2, ..., 7
\* respectively, hence to seven pairwise distinct outputs.
C22_WeekdayRemapInjective ==
    \A n \in 0..6 :
        (/\ pc = "done"
         /\ cronExpression = Expression(<<"0">>, <<"0">>, <<"*">>, <<"*">>, <<Digits[n + 1]>>)) =>
            /\ ~converted.threw
            /\ Len(OutFields) = 6
            /\ OutFields[5] = <<Digits[n + 2]>>

\* C23: for every input accepted by implementation C's validateCronExpression,
\* the output of its convertCronToEventBridge never has both day-of-month and
\* day-of-week specific: at least one of them is * or ?.
C23_MutualExclusivityC ==
    (impl = "C" /\ pc = "done" /\ valid) =>
        /\ ~converted.threw
        /\ Len(OutFields) >= 5
        /\ (OutFields[3] \in {Star, Unspecified} \/ OutFields[5] \in {Star, Unspecified})

-----------------------------------------------------------------------------
(* The domain of the output day-of-week (implementation A)                 *)

\* what stands before the first / of a field: a value, a list, a range or
\* the base of a step
BasePart(s) ==
    IF \E i \in DOMAIN s : s[i] = "/"
    THEN SubSeq(s, 1, (CHOOSE i \in DOMAIN s : s[i] = "/" /\ \A j \in 1..(i - 1) : s[j] # "/") - 1)
    ELSE s

\* the integers written in s: the values of its maximal runs of digits
IntegersIn(s) ==
    {DecimalValue(SubSeq(s, i, j)) :
        <<i, j>> \in {p \in (DOMAIN s) \X (DOMAIN s) :
                        /\ p[1] <= p[2]
                        /\ \A k \in p[1]..p[2] : IsDigit(s[k])
                        /\ (p[1] = 1 \/ ~IsDigit(s[p[1] - 1]))
                        /\ (p[2] = Len(s) \/ ~IsDigit(s[p[2] + 1]))}}

\* C24: for every accepted input, every integer that occurs as a value, list
\* element, range endpoint or step base in the output day-of-week field lies
\* in the EventBridge domain 1..7.
C24_WeekdayInDomain ==
    Accepted =>
        /\ ~converted.threw
        /\ Len(OutFields) >= 5
        /\ \A v \in IntegersIn(BasePart(OutFields[5])) : v \in 1..7

-----------------------------------------------------------------------------
(* The effect on a blank input (implementation A)                          *)

\* C25: once the effect has processed an empty or whitespace-only input,
\* eventBridgeCron is empty, isValid is true and error is empty, so neither
\* the message thrown after a failed validation nor the one thrown by the
\* conversion is shown, although on that same input validateCronExpression
\* returns false and convertCronToEventBridge throws the field-count error.
C25_BlankInput ==
    (~effectPending /\ IsBlank(unixCron)) =>
        /\ eventBridgeCron = <<>>
        /\ isValid
        /\ error = ""
        /\ error # InvalidMessage /\ error # FieldCountMessage
        /\ ~validateCronExpression(unixCron)
        /\ convertCronToEventBridge(unixCron).threw
        /\ convertCronToEventBridge(unixCron).message = FieldCountMessage

\* the whitespace-only input " \t" processed by the effect
C25_Witness ==
    /\ ~effectPending
    /\ unixCron = <<" ", "\t">>
    /\ eventBridgeCron = <<>>
    /\ isValid
    /\ error = ""

=============================================================================
